---- MODULE Spec2Model ----
(***************************************************************************)
(* Model of vrl-web-server-warp/src/resolve.rs: the compile-cache-and-     *)
(* execute pipeline of resolve(), its process-wide LRU cache behind one    *)
(* Mutex, and the thread-local Runtime of each worker.                     *)
(*                                                                         *)
(* The VRL compiler and runtime are external; they are represented by a    *)
(* handful of program texts whose compile result and execution are fixed   *)
(* by VrlCompile and RuntimeResolve below.                                 *)
(***************************************************************************)
EXTENDS Integers, Sequences, FiniteSets, TLC

(* ------------------------------ bounds -------------------------------- *)

\* Number of requests the model lets arrive in one behaviour.
MaxCalls == 4

\* Capacity of the LRU cache; resolve.rs:48 sets 400, the model scales it
\* down so that eviction happens within MaxCalls requests.
CacheCap == 2

(* ------------------------------ domains ------------------------------- *)

Workers == {"w1", "w2"}

\* Program texts.  pset:    .foo = "bar"
\*                 pbad:    a text the compiler rejects
\*                 passert: assert!(exists(.x))       (fails without .x)
\*                 pvar:    if exists(.x) { v = 1 }; v (reads a variable)
\*                 ptz:     a text whose value depends on the time zone
Programs == {"pset", "pbad", "passert", "pvar", "ptz"}

\* A document is the set of its top-level fields.
Documents == {{}, {"x"}}

\* Option<T> is a set with no element (None) or one element (Some).
None == {}
Some(x) == {x}
UnwrapOr(opt, default) == IF opt = {} THEN default ELSE CHOOSE x \in opt : TRUE

OptPrograms == {None} \cup {Some(p) : p \in Programs}
OptEvents == {None} \cup {Some(d) : d \in Documents}
OptTz == {None, Some("UTC"), Some("zz")}

\* Request bodies as the transport hands them to deserialization.
Bodies == [program : OptPrograms, event : OptEvents, tz : OptTz]

\* The bodies the requests are drawn from: every program but ptz on every
\* event without a time zone, and (for the time zone) ptz and pbad with
\* every time zone.
MainBodies == {b \in Bodies : b.tz = None /\ b.program # Some("ptz")}
TzBodies == {b \in Bodies : /\ b.program \in {None, Some("ptz"), Some("pbad")}
                            /\ b.event \in {None, Some({"x"})}}

\* The bodies of the runs that are checked for termination: a text that
\* compiles, one that fails at run time without .x and one the compiler
\* rejects.
LiveBodies == {b \in Bodies : /\ b.tz = None
                              /\ b.program \in {None, Some("pset"),
                                                Some("passert"), Some("pbad")}
                              /\ b.event \in {None, Some({"x"})}}

\* Deserialize as it would be with #[serde(default)] on program.
DeserializeDefaultProgram(body) ==
    Some([program |-> UnwrapOr(body.program, ""),
          event |-> body.event, tz |-> body.tz])

\* serde: Input.program is a String (required), event and tz are Options.
Deserialize(body) ==
    IF body.program = None
    THEN None
    ELSE Some([program |-> UnwrapOr(body.program, ""),
               event |-> body.event, tz |-> body.tz])

(* ------------------------------ outcomes ------------------------------ *)

NoMsg == <<>>
Success(v, d) == [tag |-> "success", output |-> v, result |-> d, msg |-> NoMsg]
Error(m) == [tag |-> "error", output |-> "", result |-> {}, msg |-> m]
NoOutcome == [tag |-> "none", output |-> "", result |-> {}, msg |-> NoMsg]

(* --------------------------- the VRL compiler ------------------------- *)

\* vrl::compile(program, &functions): Ok(artifact) or Err(diagnostics).
VrlCompile(program) ==
    IF program = "pbad"
    THEN [ok |-> FALSE, art |-> "", diag |-> "E203"]
    ELSE [ok |-> TRUE, art |-> program, diag |-> ""]

\* Formatter::new(&program, diagnostics).to_string()
Formatter(program, diagnostics) == <<"error", diagnostics, program>>

\* The error rendered with {:?} instead of to_string().
AnyhowDebug(msg) == <<"Error">> \o msg

\* anyhow!(msg).to_string() gives msg back.
AnyhowToString(msg) == msg

(* ------------------------------ LRU cache ----------------------------- *)

\* The cache is the sequence of its entries, most recently used first.
Ok(art) == [ok |-> TRUE, art |-> art, msg |-> NoMsg]
Err(msg) == [ok |-> FALSE, art |-> "", msg |-> msg]

\* A match that takes every stored entry for a compiled artifact.
IsOkAlways(entry) == TRUE

\* resolve.rs:64-68, 87-91  match compiled { Ok(..) => .., Err(e) => return }
IsOk(entry) == entry.ok

Keys(c) == {c[i].key : i \in 1..Len(c)}
IndexOf(c, k) == CHOOSE i \in 1..Len(c) : c[i].key = k
Remove(c, i) == SubSeq(c, 1, i - 1) \o SubSeq(c, i + 1, Len(c))

\* A get that takes the entry out of the cache (LruCache::pop).
CacheGetPops(c, k) ==
    IF k \in Keys(c)
    THEN [val |-> Some(c[IndexOf(c, k)].val),
          cache |-> Remove(c, IndexOf(c, k))]
    ELSE [val |-> None, cache |-> c]

\* A get that leaves the order of the entries alone.
CacheGetNoPromote(c, k) ==
    IF k \in Keys(c)
    THEN [val |-> Some(c[IndexOf(c, k)].val), cache |-> c]
    ELSE [val |-> None, cache |-> c]

\* A get that answers a hit with the most recently used entry.
CacheGetFront(c, k) ==
    IF k \in Keys(c)
    THEN [val |-> Some(c[1].val), cache |-> c]
    ELSE [val |-> None, cache |-> c]

\* LruCache::get: the stored value (None on a miss) and the cache after the
\* call, in which a hit entry has moved to the front.
CacheGet(c, k) ==
    IF k \in Keys(c)
    THEN [val |-> Some(c[IndexOf(c, k)].val),
          cache |-> <<c[IndexOf(c, k)]>> \o Remove(c, IndexOf(c, k))]
    ELSE [val |-> None, cache |-> c]

\* A put that, on a full cache, writes the value into the evicted entry's
\* slot and leaves that slot's key.
PutReusesSlotKey(c, k, v) ==
    IF k \in Keys(c)
    THEN <<[key |-> k, val |-> v]>> \o Remove(c, IndexOf(c, k))
    ELSE IF Len(c) >= CacheCap
         THEN <<[key |-> c[Len(c)].key, val |-> v]>>
                  \o SubSeq(c, 1, CacheCap - 1)
         ELSE <<[key |-> k, val |-> v]>> \o c

\* A put that never evicts.
PutNoEvict(c, k, v) ==
    IF k \in Keys(c)
    THEN <<[key |-> k, val |-> v]>> \o Remove(c, IndexOf(c, k))
    ELSE <<[key |-> k, val |-> v]>> \o c

\* A put that, on a full cache, drops the entry it was given.
PutDropsNew(c, k, v) ==
    IF k \in Keys(c)
    THEN <<[key |-> k, val |-> v]>> \o Remove(c, IndexOf(c, k))
    ELSE IF Len(c) >= CacheCap
         THEN c
         ELSE <<[key |-> k, val |-> v]>> \o c

\* LruCache::put: replace and promote an existing key, otherwise insert at
\* the front, dropping the last entry when the cache is at capacity.
Put(c, k, v) ==
    IF k \in Keys(c)
    THEN <<[key |-> k, val |-> v]>> \o Remove(c, IndexOf(c, k))
    ELSE IF Len(c) >= CacheCap
         THEN <<[key |-> k, val |-> v]>> \o SubSeq(c, 1, CacheCap - 1)
         ELSE <<[key |-> k, val |-> v]>> \o c

(* ------------------------------ time zone ----------------------------- *)

\* TimeZone::parse: "" and "local" are Local, a known zone name is Named,
\* anything else does not parse.
ValidTzNames == {"UTC"}
TimeZoneParse(s) ==
    IF s \in {"", "local"} THEN Some("Local")
    ELSE IF s \in ValidTzNames THEN Some(s)
    ELSE None

\* The time zone string taken from the request.
TimeZoneStrFromInput(input) == UnwrapOr(input.tz, "")

\* resolve.rs:117  Some("tt".to_string()).unwrap_or_default()
TimeZoneStr(input) == UnwrapOr(Some("tt"), "")

\* resolve.rs:119-122
ResolveTimeZone(input) == UnwrapOr(TimeZoneParse(TimeZoneStr(input)), "Local")

(* --------------------------- the VRL runtime -------------------------- *)

\* Runtime::resolve(&mut target, &program, &time_zone) on the runtime state
\* rts (the set of variables the runtime holds).  Nothing in resolve()
\* clears the runtime between calls.
RuntimeResolve(rts, doc, art, tz) ==
    CASE art = "pset" ->
           [ok |-> TRUE, output |-> "bar", doc |-> doc \cup {"foo"},
            rts |-> rts, err |-> ""]
      [] art = "passert" ->
           IF "x" \in doc
           THEN [ok |-> TRUE, output |-> "true", doc |-> doc,
                 rts |-> rts, err |-> ""]
           ELSE [ok |-> FALSE, output |-> "", doc |-> doc,
                 rts |-> rts, err |-> "assertion failed"]
      [] art = "pvar" ->
           LET rts2 == IF "x" \in doc THEN rts \cup {"v"} ELSE rts
           IN  [ok |-> TRUE,
                output |-> IF "v" \in rts2 THEN "1" ELSE "null",
                doc |-> doc, rts |-> rts2, err |-> ""]
      [] art = "ptz" ->
           [ok |-> TRUE, output |-> tz, doc |-> doc,
            rts |-> rts, err |-> ""]
      [] OTHER ->
           [ok |-> FALSE, output |-> "", doc |-> doc,
            rts |-> rts, err |-> "not a program"]

\* resolve.rs:129  err.to_string() of a runtime error
ErrToString(err) == <<"function call error", err>>

(* ------------------------------- state -------------------------------- *)

VARIABLES
    cache,      \* CACHE: the LruCache behind the Mutex
    lock,       \* owner of the Mutex: a worker, or "free"
    runtime,    \* RUNTIME: the thread-local Runtime state of each worker
    pc,         \* position of each worker in resolve()
    request,    \* the body each worker has received and not yet parsed
    call,       \* the locals of the call each worker runs (or ran last)
    status,     \* HTTP status of each worker's last reply (0: none yet)
    ncalls,     \* requests received so far
    compiles,   \* per program text: how often vrl::compile ran on it
    evicted,    \* program texts dropped from the cache so far
    uses,       \* the program texts looked up with a hit or stored so far,
                \* the most recently used first
    firstError  \* per program text: the message the first call whose
                \* compilation of it failed returned

vars == <<cache, lock, runtime, pc, request, call, status, ncalls, compiles,
          evicted, uses, firstError>>

NoInput == [program |-> "", event |-> None, tz |-> None]

NoCall == [input |-> NoInput, value |-> {}, lookup |-> "none",
           overlap |-> FALSE, hitAt |-> 0,
           compiled |-> "", compiledHere |-> 0, executed |-> 0,
           rts0 |-> {}, tzUsed |-> "", result |-> NoOutcome,
           outcome |-> NoOutcome]

Init ==
    /\ cache = <<>>
    /\ lock = "free"
    /\ runtime = [w \in Workers |-> {}]
    /\ pc = [w \in Workers |-> "idle"]
    /\ call = [w \in Workers |-> NoCall]
    /\ status = [w \in Workers |-> 0]
    /\ ncalls = 0
    /\ compiles = [p \in Programs |-> 0]
    /\ evicted = {}
    /\ uses = <<>>
    /\ firstError = [p \in Programs |-> NoMsg]
    /\ request = [w \in Workers |-> None]

\* The log of uses with program text k used now.
Used(u, k) == <<k>> \o SelectSeq(u, LAMBDA q : q # k)

CanAccept(w) == pc[w] \in {"idle", "done", "rejected"} /\ ncalls < MaxCalls


(* ------------------------- the transport boundary --------------------- *)

\* A request arrives on worker w; its body is yet to be deserialized.
Receive(w, body) ==
    /\ CanAccept(w)
    /\ ncalls' = ncalls + 1
    /\ request' = [request EXCEPT ![w] = Some(body)]
    /\ pc' = [pc EXCEPT ![w] = "recv"]
    /\ call' = [call EXCEPT ![w] = NoCall]
    /\ status' = [status EXCEPT ![w] = 0]
    /\ UNCHANGED <<cache, lock, runtime, compiles, evicted, uses, firstError>>

Body(w) == UnwrapOr(request[w], [program |-> None, event |-> None, tz |-> None])

\* A body that does not deserialize into Input never reaches resolve():
\* the router answers 400.
Reject(w) ==
    /\ pc[w] = "recv"
    /\ Deserialize(Body(w)) = None
    /\ request' = [request EXCEPT ![w] = None]
    /\ pc' = [pc EXCEPT ![w] = "rejected"]
    /\ status' = [status EXCEPT ![w] = 400]
    /\ UNCHANGED <<cache, lock, runtime, call, ncalls, compiles, evicted, uses,
                   firstError>>

(* ------------------------------ resolve() ----------------------------- *)

\* resolve.rs:52  input.event.unwrap_or(value!({}))
InitialValue(input) == UnwrapOr(input.event, {})

\* resolve_vrl_input calls resolve(input); resolve.rs:52-53 take the
\* document and the program text out of the input.
Start(w) ==
    /\ pc[w] = "recv"
    /\ Deserialize(Body(w)) # None
    /\ LET input == UnwrapOr(Deserialize(Body(w)), NoInput)
       IN  call' = [call EXCEPT ![w] =
                       [NoCall EXCEPT !.input = input,
                                      !.value = InitialValue(input),
                                      !.overlap = (lock # "free")]]
    /\ request' = [request EXCEPT ![w] = None]
    /\ pc' = [pc EXCEPT ![w] = "lock"]
    /\ UNCHANGED <<cache, lock, runtime, status, ncalls, compiles, evicted,
                   uses, firstError>>

\* Entering the critical section without waiting for the Mutex.
AcquireUnguarded(w) ==
    /\ pc[w] = "lock"
    /\ lock' = w
    /\ pc' = [pc EXCEPT ![w] = "lookup"]
    /\ UNCHANGED <<cache, runtime, request, call, status, ncalls, compiles,
                   evicted, uses, firstError>>

\* resolve.rs:55  CACHE.lock().unwrap(): blocks while another call holds it.
Acquire(w) ==
    /\ pc[w] = "lock"
    /\ lock = "free"
    /\ lock' = w
    /\ pc' = [pc EXCEPT ![w] = "lookup"]
    /\ UNCHANGED <<cache, runtime, request, call, status, ncalls, compiles,
                   evicted, uses, firstError>>

\* A return that unlocks the Mutex on the success path only.
ReturnedLeaksOnError(w, c, outcome) ==
    /\ call' = [call EXCEPT ![w] = [c EXCEPT !.outcome = outcome]]
    /\ pc' = [pc EXCEPT ![w] = "done"]
    /\ status' = [status EXCEPT ![w] = 200]
    /\ lock' = IF outcome.tag = "error" THEN lock ELSE "free"

\* A return that keeps the Mutex locked.
ReturnedHoldingLock(w, c, outcome) ==
    /\ call' = [call EXCEPT ![w] = [c EXCEPT !.outcome = outcome]]
    /\ pc' = [pc EXCEPT ![w] = "done"]
    /\ status' = [status EXCEPT ![w] = 200]
    /\ lock' = lock

\* The call returns `outcome`: the MutexGuard cache_ref goes out of scope
\* and the handler replies 200 with the outcome as JSON.
Returned(w, c, outcome) ==
    /\ call' = [call EXCEPT ![w] = [c EXCEPT !.outcome = outcome]]
    /\ pc' = [pc EXCEPT ![w] = "done"]
    /\ status' = [status EXCEPT ![w] = 200]
    /\ lock' = "free"

\* resolve.rs:57-69  the first cache lookup.
Lookup(w) ==
    /\ pc[w] = "lookup"
    /\ LET program == call[w].input.program
           got == CacheGet(cache, program)
           stored_result == got.val
       IN  /\ cache' = got.cache
           /\ uses' = IF stored_result = None THEN uses
                      ELSE Used(uses, program)
           /\ IF stored_result = None
              THEN /\ call' = [call EXCEPT ![w].lookup = "miss"]
                   /\ pc' = [pc EXCEPT ![w] = "compile"]
                   /\ UNCHANGED <<lock, status>>
              ELSE LET entry == UnwrapOr(stored_result, Err(NoMsg))
                   IN  IF IsOk(entry)
                       THEN /\ call' = [call EXCEPT
                                           ![w].lookup = "hit",
                                           ![w].hitAt = IndexOf(cache, program),
                                           ![w].compiled = entry.art]
                            /\ pc' = [pc EXCEPT ![w] = "run"]
                            /\ UNCHANGED <<lock, status>>
                       ELSE Returned(w,
                                     [call[w] EXCEPT
                                         !.lookup = "hiterr",
                                         !.hitAt = IndexOf(cache, program)],
                                     Error(entry.msg))
    /\ UNCHANGED <<runtime, request, ncalls, compiles, evicted, firstError>>

\* resolve.rs:70-106  the miss branch: compile, store, re-read.
Compile(w) ==
    /\ pc[w] = "compile"
    /\ LET program == call[w].input.program
           res == VrlCompile(program)
           c == [call[w] EXCEPT !.compiledHere = @ + 1]
       IN  /\ compiles' = [compiles EXCEPT ![program] = @ + 1]
           /\ IF res.ok
              THEN LET stored == Put(cache, program, Ok(res.art))
                       got == CacheGet(stored, program)
                       reread == got.val
                   IN  /\ cache' = got.cache
                       /\ evicted' = evicted \cup (Keys(cache) \ Keys(stored))
                       /\ uses' = Used(uses, program)
                       /\ UNCHANGED firstError
                       /\ IF reread = None
                          THEN \* unreachable!(): the thread panics holding
                               \* the guard, which poisons the Mutex
                               /\ call' = [call EXCEPT ![w] = c]
                               /\ pc' = [pc EXCEPT ![w] = "panicked"]
                               /\ lock' = "poisoned"
                               /\ status' = [status EXCEPT ![w] = 500]
                          ELSE LET entry == UnwrapOr(reread, Err(NoMsg))
                               IN  IF IsOk(entry)
                                   THEN /\ call' = [call EXCEPT ![w] =
                                               [c EXCEPT !.compiled = entry.art]]
                                        /\ pc' = [pc EXCEPT ![w] = "run"]
                                        /\ UNCHANGED <<lock, status>>
                                   ELSE Returned(w, c, Error(entry.msg))
              ELSE LET msg == Formatter(program, res.diag)
                       stored == Put(cache, program, Err(msg))
                   IN  /\ cache' = stored
                       /\ evicted' = evicted \cup (Keys(cache) \ Keys(stored))
                       /\ uses' = Used(uses, program)
                       /\ firstError' =
                              IF firstError[program] = NoMsg
                              THEN [firstError EXCEPT
                                       ![program] = AnyhowToString(msg)]
                              ELSE firstError
                       /\ Returned(w, c, Error(AnyhowToString(msg)))
    /\ UNCHANGED <<runtime, request, ncalls>>

\* One Runtime shared by all workers (a static in place of thread_local!).
RuntimeShared(rt, w, rts) == [v \in Workers |-> rts]

\* resolve.rs:18-20, 124-125  RUNTIME.with(|r| r.borrow_mut()): the state
\* Runtime::resolve leaves goes into the runtime of the calling thread.
RuntimeAfter(rt, w, rts) == [rt EXCEPT ![w] = rts]

\* resolve.rs:107-131  resolve the time zone and run the program on the
\* worker's own Runtime; cache_ref is still in scope.
Run(w) ==
    /\ pc[w] = "run"
    /\ LET c == call[w]
           time_zone == ResolveTimeZone(c.input)
           r == RuntimeResolve(runtime[w], c.value, c.compiled, time_zone)
       IN  /\ runtime' = RuntimeAfter(runtime, w, r.rts)
           /\ call' = [call EXCEPT ![w] =
                  [c EXCEPT !.executed = @ + 1,
                            !.rts0 = runtime[w],
                            !.tzUsed = time_zone,
                            !.value = r.doc,
                            !.result = IF r.ok THEN Success(r.output, {})
                                       ELSE Error(ErrToString(r.err))]]
    /\ pc' = [pc EXCEPT ![w] = "ret"]
    /\ UNCHANGED <<cache, lock, request, status, ncalls, compiles, evicted,
                   uses, firstError>>

\* An Outcome that answers with an empty document.
MakeOutcomeLosesDocument(result, value) ==
    IF result.tag = "success"
    THEN Success(result.output, {})
    ELSE Error(result.msg)

\* resolve.rs:133-139  the Outcome of an executed call: the value the
\* runtime returned with the document as execution left it, or the error.
MakeOutcome(result, value) ==
    IF result.tag = "success"
    THEN Success(result.output, value)
    ELSE Error(result.msg)

\* A return that records a runtime error under the program text.
ReturnCachesError(w) ==
    /\ pc[w] = "ret"
    /\ Returned(w, call[w], MakeOutcome(call[w].result, call[w].value))
    /\ cache' = IF call[w].result.tag = "error"
                THEN Put(cache, call[w].input.program,
                         Err(call[w].result.msg))
                ELSE cache
    /\ UNCHANGED <<runtime, request, ncalls, compiles, evicted, uses,
                   firstError>>

\* A return that runs the program once more after a runtime error.
ReturnRetries(w) ==
    /\ pc[w] = "ret"
    /\ IF call[w].result.tag = "error" /\ call[w].executed < 2
       THEN /\ pc' = [pc EXCEPT ![w] = "run"]
            /\ UNCHANGED <<call, status, lock>>
       ELSE Returned(w, call[w], MakeOutcome(call[w].result, call[w].value))
    /\ UNCHANGED <<cache, runtime, request, ncalls, compiles, evicted, uses,
                   firstError>>

\* resolve.rs:133-142  build the Outcome and return.
Return(w) ==
    /\ pc[w] = "ret"
    /\ Returned(w, call[w], MakeOutcome(call[w].result, call[w].value))
    /\ UNCHANGED <<cache, runtime, request, ncalls, compiles, evicted, uses,
                   firstError>>

Step(w) ==
    \/ Reject(w)
    \/ Start(w)
    \/ Acquire(w)
    \/ Lookup(w)
    \/ Compile(w)
    \/ Run(w)
    \/ Return(w)

Next ==
    \E w \in Workers :
        \/ \E body \in MainBodies : Receive(w, body)
        \/ Step(w)

Spec == Init /\ [][Next]_vars

\* The same program with the requests drawn from TzBodies.
NextTz ==
    \E w \in Workers :
        \/ \E body \in TzBodies : Receive(w, body)
        \/ Step(w)

SpecTz == Init /\ [][NextTz]_vars

\* The steps of worker w that wait for nothing.
Progress(w) ==
    \/ Reject(w)
    \/ Start(w)
    \/ Lookup(w)
    \/ Compile(w)
    \/ Run(w)
    \/ Return(w)

NextLive ==
    \E w \in Workers :
        \/ \E body \in LiveBodies : Receive(w, body)
        \/ Step(w)

\* resolve() has no await and no loop: a worker that can take a step takes
\* it (the compiler and the runtime terminate), and the Mutex is granted
\* to a waiting worker that finds it free again and again.
Fairness ==
    \A w \in Workers : WF_vars(Progress(w)) /\ SF_vars(Acquire(w))

SpecLive == Init /\ [][NextLive]_vars /\ Fairness


(* ------------------------------- claims ------------------------------- *)

Done(w) == pc[w] = "done"

\* What a call with this input returns when it compiles its program itself
\* and runs it on a runtime in state rts.
FreshOutcome(input, rts) ==
    LET res == VrlCompile(input.program)
        r == RuntimeResolve(rts, InitialValue(input), res.art,
                            ResolveTimeZone(input))
    IN  IF ~res.ok
        THEN Error(AnyhowToString(Formatter(input.program, res.diag)))
        ELSE IF r.ok THEN Success(r.output, r.doc)
        ELSE Error(ErrToString(r.err))

\* C1: a call whose program compiled and whose execution succeeded returns
\* Success{output, result} where output is the value execution returned
\* and result is the document execution left, execution having started on
\* input.event, or on the empty document when input.event is absent.
C1_SuccessOutcome ==
    \A w \in Workers :
        (Done(w) /\ call[w].executed = 1 /\ call[w].result.tag = "success") =>
            LET c == call[w]
                D == IF c.input.event = None THEN {}
                     ELSE CHOOSE d \in c.input.event : TRUE
                r == RuntimeResolve(c.rts0, D, c.compiled, c.tzUsed)
            IN  /\ r.ok
                /\ c.outcome = Success(r.output, r.doc)
                /\ c.outcome.output = c.result.output

\* The first test case: .foo = "bar" without an event.
C1_Witness ==
    \E w \in Workers :
        /\ Done(w)
        /\ call[w].input.program = "pset"
        /\ call[w].input.event = None
        /\ call[w].outcome = Success("bar", {"foo"})

\* C2: a request whose body lacks `program` is answered 400 at the boundary:
\* resolve is not entered (no call, no Outcome), the compiler is not
\* invoked and the cache, the lock and the runtimes stay as they were.
C2_MissingProgramRejected ==
    [][\A w \in Workers :
          (pc[w] = "recv" /\ Body(w).program = None /\ pc'[w] # "recv") =>
              /\ pc'[w] = "rejected"
              /\ status'[w] = 400
              /\ call'[w] = NoCall
              /\ cache' = cache
              /\ compiles' = compiles
              /\ lock' = lock
              /\ runtime' = runtime]_vars

C2_Witness ==
    \E w \in Workers :
        /\ pc[w] = "rejected"
        /\ status[w] = 400
        /\ call[w].outcome = NoOutcome

\* C3: a call that finds a failure entry for its program text returns
\* Error(M) with the message M the first call that failed to compile that
\* text returned, without compiling and without executing.
C3_NegativeCaching ==
    \A w \in Workers :
        (Done(w) /\ call[w].lookup = "hiterr") =>
            /\ firstError[call[w].input.program] # NoMsg
            /\ call[w].outcome = Error(firstError[call[w].input.program])
            /\ call[w].compiledHere = 0
            /\ call[w].executed = 0

C3_Witness ==
    \E w \in Workers :
        /\ Done(w)
        /\ call[w].lookup = "hiterr"
        /\ call[w].outcome.tag = "error"
        /\ compiles[call[w].input.program] = 1

\* C4: a call whose program text is in the cache as a compiled artifact is
\* a hit: it does not invoke the compiler, and it returns what a call that
\* compiles the text itself returns for the same event.
C4_IdempotentCompilation ==
    /\ \A w \in Workers :
          (call[w].lookup = "hit") =>
              /\ call[w].compiledHere = 0
              /\ compiles[call[w].input.program] >= 1
              /\ Done(w) =>
                    call[w].outcome = FreshOutcome(call[w].input, call[w].rts0)
    /\ \A w \in Workers :
          (call[w].lookup = "miss") =>
              \/ compiles[call[w].input.program] = call[w].compiledHere
              \/ call[w].input.program \in evicted

C4_Witness ==
    \E w \in Workers :
        /\ Done(w)
        /\ call[w].lookup = "hit"
        /\ call[w].outcome.tag = "success"
        /\ compiles[call[w].input.program] = 1

\* C5: calls with the same program text that run concurrently compile it at
\* most once (as long as the text is not evicted), whatever the
\* interleaving, and each returns what a lone call with its input returns.
C5_ConcurrentCompiles ==
    /\ \A p \in Programs : p \notin evicted => compiles[p] <= 1
    /\ \A w \in Workers :
          (Done(w) /\ call[w].lookup # "none") =>
              call[w].outcome = FreshOutcome(call[w].input, call[w].rts0)

\* Two calls in flight together on the same new text: one compiled it, the
\* other started while the first held the lock and hit the cache.
C5_Witness ==
    \E w \in Workers, v \in Workers :
        /\ w # v
        /\ Done(w) /\ Done(v)
        /\ call[w].input.program = call[v].input.program
        /\ call[w].compiledHere = 1
        /\ call[v].overlap /\ call[v].lookup = "hit"
        /\ ncalls = 2
        /\ compiles[call[w].input.program] = 1


\* C6: a call gives up the cache lock before it invokes the execution
\* context: no call holds the lock when it is about to run its program.
C6_ExecutionOutsideLock ==
    \A w \in Workers : pc[w] = "run" => lock # w

C8_TzInert ==
    /\ \A w \in Workers :
          /\ call[w].executed = 1 => call[w].tzUsed = "Local"
          /\ (Done(w) /\ call[w].lookup # "none") =>
                call[w].outcome =
                    FreshOutcome([call[w].input EXCEPT !.tz = None],
                                 call[w].rts0)
          /\ (Done(w) /\ call[w].input.program = "ptz") =>
                call[w].outcome.tag = "success"
    /\ \A i \in 1..Len(cache) :
          cache[i].val =
              IF VrlCompile(cache[i].key).ok
              THEN Ok(VrlCompile(cache[i].key).art)
              ELSE Err(Formatter(cache[i].key, VrlCompile(cache[i].key).diag))

\* Two finished calls that differ only in tz, one valid and one that does
\* not parse, with the same outcome.
C8_Witness ==
    \E w \in Workers, v \in Workers :
        /\ Done(w) /\ Done(v)
        /\ call[w].input.program = "ptz" /\ call[v].input.program = "ptz"
        /\ call[w].input.event = call[v].input.event
        /\ call[w].input.tz = Some("UTC")
        /\ call[v].input.tz = Some("zz")
        /\ call[w].outcome = call[v].outcome
        /\ call[w].outcome.output = "Local"

\* C9: a runtime error is returned as Error(the error as a string) and is
\* not cached: no program text that compiles ever has a failure entry, and
\* the failed call leaves its program's compiled artifact in the cache.
C9_RuntimeErrorsNotCached ==
    /\ \A i \in 1..Len(cache) :
          VrlCompile(cache[i].key).ok => cache[i].val = Ok(cache[i].key)
    /\ \A w \in Workers :
          (call[w].executed = 1 /\ call[w].result.tag = "error") =>
              /\ pc[w] = "ret" =>
                    CacheGet(cache, call[w].input.program).val
                        = Some(Ok(call[w].compiled))
              /\ Done(w) =>
                    call[w].outcome =
                        Error(<<"function call error", "assertion failed">>)

\* The call that compiled the program failed at run time; a later call with
\* the same text and another document hit the cache and succeeded.
C9_Witness ==
    \E w \in Workers, v \in Workers :
        /\ Done(w) /\ Done(v)
        /\ call[w].input.program = "passert"
        /\ call[v].input.program = "passert"
        /\ call[w].compiledHere = 1
        /\ call[w].outcome.tag = "error"
        /\ call[v].lookup = "hit"
        /\ call[v].outcome = Success("true", {"x"})
        /\ compiles["passert"] = 1

\* Of the cached program texts, the one whose last use (hit or insert) is
\* the oldest.
PosIn(u, k) == CHOOSE i \in 1..Len(u) : u[i] = k
LeastRecentlyUsed(c, u) ==
    CHOOSE k \in Keys(c) : \A j \in Keys(c) : PosIn(u, j) <= PosIn(u, k)

\* C10: an insert of a new program text into a full cache evicts exactly
\* one entry, the least recently used one (a hit and an insert both count
\* as a use); nothing else evicts; a later call with an evicted text misses,
\* compiles again and returns what a fresh call returns.
C10_Eviction ==
    /\ [][/\ (Len(cache) = CacheCap /\ Keys(cache') \ Keys(cache) # {}) =>
                Keys(cache) \ Keys(cache') = {LeastRecentlyUsed(cache, uses)}
          /\ Keys(cache) \ Keys(cache') # {} =>
                /\ Len(cache) = CacheCap
                /\ Keys(cache') \ Keys(cache) # {}]_vars
    /\ [](\A w \in Workers :
            (Done(w) /\ call[w].lookup = "miss"
                     /\ call[w].input.program \in evicted) =>
                /\ call[w].compiledHere = 1
                /\ call[w].outcome =
                       FreshOutcome(call[w].input, call[w].rts0))

\* A text that was evicted after another entry's hit, then requested again:
\* a miss, a second compilation, a success.
C10_Witness ==
    \E w \in Workers :
        /\ Done(w)
        /\ call[w].lookup = "miss"
        /\ call[w].input.program \in evicted
        /\ compiles[call[w].input.program] = 2
        /\ call[w].outcome.tag = "success"


\* C11: with terminating compiler and runtime and a fairly granted lock,
\* every call that has entered resolve() eventually returns, with exactly
\* one Outcome (Success or Error); no caller waits for the lock forever.
C11_EveryCallCompletes ==
    \A w \in Workers :
        (pc[w] = "lock") ~>
            (Done(w) /\ call[w].outcome.tag \in {"success", "error"})

\* A call that entered while another call held the lock has returned.
C11_Witness ==
    \E w \in Workers :
        /\ Done(w)
        /\ call[w].overlap
        /\ call[w].outcome.tag = "success"


\* C12: in every reachable state the cache holds at most its capacity of
\* entries and at most one entry per program text.
C12_CacheBounded ==
    /\ Len(cache) <= CacheCap
    /\ Cardinality(Keys(cache)) = Len(cache)
    /\ \A i \in 1..Len(cache) : \A j \in 1..Len(cache) :
          cache[i].key = cache[j].key => i = j

\* The cache is full and has evicted an entry.
C12_Witness ==
    /\ Len(cache) = CacheCap
    /\ evicted # {}

\* C13: the re-read after put(P, compiled artifact) always finds the entry
\* just stored: no call panics (unreachable!) or poisons the lock, and a
\* call that compiled a text the compiler accepts goes on to execute the
\* artifact of that text instead of returning from the re-read.
C13_RereadNeverMisses ==
    /\ lock # "poisoned"
    /\ \A w \in Workers :
          /\ pc[w] # "panicked"
          /\ (call[w].compiledHere = 1
                /\ VrlCompile(call[w].input.program).ok) =>
                /\ pc[w] \in {"run", "ret", "done"}
                /\ call[w].compiled = VrlCompile(call[w].input.program).art
                /\ Done(w) => call[w].executed = 1

\* The third text stored in a cache of two entries: the put evicted, and
\* the re-read found the new entry at the front.
C13_Witness ==
    \E w \in Workers :
        /\ pc[w] = "run"
        /\ call[w].compiledHere = 1
        /\ evicted # {}
        /\ call[w].input.program \notin evicted
        /\ Len(cache) = CacheCap
        /\ cache[1] = [key |-> call[w].input.program,
                       val |-> Ok(call[w].compiled)]

\* A call ended on the compile-error path: its lookup hit a stored failure
\* or its own compilation failed.
CompileErrorPath(w) ==
    \/ call[w].lookup = "hiterr"
    \/ call[w].compiledHere = 1 /\ ~VrlCompile(call[w].input.program).ok

\* C14: execution is invoked only with the compiled artifact of the call's
\* program; a call on the compile-error path never executes, leaves the
\* document as it was and returns without a runtime result, and a call with
\* a runtime error had no compile error.
C14_OneErrorPath ==
    \A w \in Workers :
        /\ call[w].executed >= 1 =>
              /\ call[w].compiled # ""
              /\ call[w].compiled = VrlCompile(call[w].input.program).art
              /\ ~CompileErrorPath(w)
        /\ CompileErrorPath(w) =>
              /\ call[w].executed = 0
              /\ call[w].value = InitialValue(call[w].input)
              /\ call[w].result = NoOutcome
              /\ Done(w) /\ call[w].outcome.tag = "error"

\* One call ended on the compile-error path, another on the runtime-error
\* path.
C14_Witness ==
    \E w \in Workers, v \in Workers :
        /\ Done(w) /\ Done(v)
        /\ CompileErrorPath(w)
        /\ call[v].executed = 1
        /\ call[v].result.tag = "error"
        /\ call[v].outcome.tag = "error"

\* C15: within one call the compiler runs at most once and the execution
\* context at most once; a failure of either ends the call with
\* Outcome::Error carrying that failure's message.
C15_NoRetries ==
    \A w \in Workers :
        /\ call[w].compiledHere <= 1
        /\ call[w].executed <= 1
        /\ (Done(w) /\ call[w].compiledHere = 1
                    /\ ~VrlCompile(call[w].input.program).ok) =>
              call[w].outcome =
                  Error(Formatter(call[w].input.program,
                                  VrlCompile(call[w].input.program).diag))
        /\ (call[w].executed = 1 /\ call[w].result.tag = "error") =>
              /\ pc[w] \in {"ret", "done"}
              /\ Done(w) => call[w].outcome = call[w].result

\* A call that compiled once, executed once and returned the runtime error.
C15_Witness ==
    \E w \in Workers :
        /\ Done(w)
        /\ call[w].compiledHere = 1
        /\ call[w].executed = 1
        /\ call[w].outcome = Error(ErrToString("assertion failed"))


\* C16: from its lookup until its execution has finished, the call's
\* program text stays in the cache with the compiled artifact the call
\* uses: no concurrent call evicts or replaces it.
C16_EntryInUseNotEvicted ==
    \A w \in Workers :
        pc[w] \in {"run", "ret"} =>
            /\ call[w].input.program \in Keys(cache)
            /\ CacheGet(cache, call[w].input.program).val
                   = Some(Ok(call[w].compiled))
            /\ \A v \in Workers \ {w} :
                  pc[v] \notin {"lookup", "compile", "run", "ret"}

\* A call has executed on its artifact while another call, whose text is
\* not cached and whose insert would evict from the full cache, waits.
C16_Witness ==
    \E w \in Workers, v \in Workers :
        /\ pc[w] = "ret"
        /\ pc[v] = "lock"
        /\ Len(cache) = CacheCap
        /\ call[v].input.program \notin Keys(cache)
        /\ cache[1].key = call[w].input.program
        /\ call[w].hitAt = CacheCap

\* C17: each worker has its own runtime: a runtime changes only in the
\* execution step of the call running on its worker, that step reads the
\* runtime of its own worker and leaves every other worker's runtime alone.
C17_RuntimeNotShared ==
    [][\A w \in Workers :
          /\ runtime'[w] # runtime[w] => (pc[w] = "run" /\ pc'[w] = "ret")
          /\ (pc[w] = "run" /\ pc'[w] = "ret") =>
                /\ call'[w].rts0 = runtime[w]
                /\ \A v \in Workers \ {w} : runtime'[v] = runtime[v]]_vars

\* One worker's runtime holds the variable v; a call on the other worker
\* read v from its own runtime and found nothing.
C17_Witness ==
    \E w \in Workers, v \in Workers :
        /\ runtime[w] = {"v"}
        /\ runtime[v] = {}
        /\ Done(v)
        /\ call[v].input.program = "pvar"
        /\ call[v].executed = 1
        /\ call[v].outcome.output = "null"

\* What compiling program text k puts into the cache.
CompiledEntry(k) ==
    IF VrlCompile(k).ok
    THEN Ok(VrlCompile(k).art)
    ELSE Err(Formatter(k, VrlCompile(k).diag))

\* C18: in every reachable state every cache entry is the result of
\* compiling its own key: the artifact of that text if it compiles, the
\* formatted diagnostics of that text if it does not.
C18_CacheCoherence ==
    \A i \in 1..Len(cache) :
        /\ cache[i].key \in Programs
        /\ cache[i].val = CompiledEntry(cache[i].key)

\* An evicted text is back in a full cache after a second compilation,
\* next to a failure entry.
C18_Witness ==
    \E i \in 1..Len(cache) :
        /\ cache[i].key \in evicted
        /\ compiles[cache[i].key] = 2
        /\ Len(cache) = CacheCap

\* C19: a lookup that hits (a success or a failure entry) leaves the
\* entries of the cache as they were, evicts nothing and compiles nothing;
\* the hit entry moves to the front and the others keep their order; the
\* rest of the call (execution, return) does not touch the cache.
C19_HitChangesOnlyRecency ==
    [][\A w \in Workers :
          /\ (pc[w] = "lookup" /\ pc'[w] # "lookup"
                /\ call[w].input.program \in Keys(cache)) =>
                /\ Len(cache') = Len(cache)
                /\ {cache'[i] : i \in 1..Len(cache')}
                       = {cache[i] : i \in 1..Len(cache)}
                /\ cache'[1].key = call[w].input.program
                /\ Tail(cache')
                       = Remove(cache, IndexOf(cache, call[w].input.program))
                /\ evicted' = evicted
                /\ compiles' = compiles
          /\ (pc[w] \in {"run", "ret"} /\ pc'[w] # pc[w]) =>
                cache' = cache]_vars

\* A hit on the entry at the back of the cache, now at the front.
C19_Witness ==
    \E w \in Workers :
        /\ pc[w] = "run"
        /\ call[w].lookup = "hit"
        /\ call[w].hitAt = 2
        /\ cache[1].key = call[w].input.program

\* The calls inside the critical section of resolve().
InCritical == {w \in Workers : pc[w] \in {"lookup", "compile", "run", "ret"}}

\* C20: the lock is held by exactly the call that is between CACHE.lock()
\* and its return: at most one call at a time, and the lock is free (not
\* held, not poisoned) whenever no call is there, so every exit path has
\* released it.
C20_LockReleased ==
    /\ Cardinality(InCritical) <= 1
    /\ \A w \in Workers : w \in InCritical <=> lock = w
    /\ InCritical = {} <=> lock = "free"

\* The lock is free after a cached-failure early return, a fresh compile
\* failure or a runtime error on one worker and a success on the other.
C20_Witness ==
    \E w \in Workers, v \in Workers :
        /\ lock = "free"
        /\ Done(w) /\ Done(v)
        /\ call[w].outcome.tag = "error"
        /\ call[w].lookup = "hiterr"
        /\ call[v].outcome.tag = "error"
        /\ call[v].executed = 1

====
